---- MODULE Spec2Model ----
(***************************************************************************)
(* The tolerant edit distance of sopnet: TolerantEditDistance::updateOutputs*)
(* runs extractCells, enumerateCellLabels and findBestCellLabels on a pair  *)
(* of label volumes (ground truth, reconstruction).  The model keeps the    *)
(* member fields of the node, the linear program handed to the solver and   *)
(* the solution that comes back.                                            *)
(***************************************************************************)
EXTENDS Integers, Sequences, FiniteSets, TLC

\* ------------------------------------------------------------------ bounds
\* a volume has at most MaxVoxels voxels (width * height * depth)
MaxVoxels == 2
\* labels are 1..MaxLabel
MaxLabel == 2
\* number of evaluations (updateOutputs calls) of one instance
MaxRuns == 2
\* Integer-typed variables of the program range over -IntBound..IntBound
IntBound == 3

\* --------------------------------------------------------- program constants
\* default of the program option toleranceDistanceThreshold
optionToleranceDistanceThreshold == 100
\* the voxel size enumerateCellLabels hard-codes
pitch == <<1, 1, 10>>

\* thresholds an instance may be constructed with (the option is configurable)
Thresholds == {0, 5, optionToleranceDistanceThreshold, optionToleranceDistanceThreshold + 1}

Labels == 1..MaxLabel

\* what a read beyond the end of an image buffer may return: any label value,
\* or a value (0) that is no label of the input
OutOfBoundsValues == 0..MaxLabel

\* ----------------------------------------------------------------- helpers
Min(S) == CHOOSE x \in S : \A y \in S : x <= y
Max(S) == CHOOSE x \in S : \A y \in S : x >= y

RECURSIVE SetToSortedSeq(_)
\* iteration order of a std::set<float> / the keys of a std::map<float, ...>
SetToSortedSeq(S) ==
    IF S = {} THEN <<>> ELSE <<Min(S)>> \o SetToSortedSeq(S \ {Min(S)})

RECURSIVE Flatten(_)
Flatten(seqs) ==
    IF seqs = <<>> THEN <<>> ELSE Head(seqs) \o Flatten(Tail(seqs))

RECURSIVE SumOver(_, _)
\* sum of f[x] over x in S
SumOver(f, S) ==
    IF S = {} THEN 0
    ELSE LET x == CHOOSE y \in S : TRUE IN f[x] + SumOver(f, S \ {x})

EmptyMap == [k \in {} |-> k]

\* std::map<K, std::set<V>>: m[k].insert(v), creating m[k] when absent
MapSetInsert(m, k, v) ==
    [x \in DOMAIN m \cup {k} |->
        IF x = k THEN (IF k \in DOMAIN m THEN m[k] ELSE {}) \cup {v} ELSE m[x]]

\* std::map lookup with operator[]: a missing key reads as the default value
MapGet(m, k, default) == IF k \in DOMAIN m THEN m[k] ELSE default

\* ----------------------------------------------------------------- volumes
\* an ImageStack: depth images (size()) of width x height, one label per voxel
Locations(w, h, d) == (0..(w - 1)) \X (0..(h - 1)) \X (0..(d - 1))

Shapes ==
    {s \in (1..MaxVoxels) \X (1..MaxVoxels) \X (1..MaxVoxels) :
        s[1] * s[2] * s[3] <= MaxVoxels}

Volumes ==
    UNION {[width : {s[1]}, height : {s[2]}, depth : {s[3]},
            data : [Locations(s[1], s[2], s[3]) -> Labels]] : s \in Shapes}

\* ------------------------------------------------------------------- state
VARIABLES
    groundTruth, reconstruction,        \* the two inputs of the node
    maxDistanceThreshold,               \* _maxDistanceThreshold
    cells,                              \* _cells[recLabel][gtLabel]
    width, height, depth,               \* _width, _height, _depth
    groundTruthLabels,                  \* _groundTruthLabels
    reconstructionLabels,               \* _reconstructionLabels
    possibleGroundTruthMatches,         \* _possibleGroundTruthMatches
    possibleReconstructionMatches,      \* _possibleReconstructionMatches
    indicatorVarsByRecLabel,            \* _indicatorVarsByRecLabel
    indicatorVarsByGtToRecLabel,        \* _indicatorVarsByGtToRecLabel
    matchVars,                          \* _matchVars
    constraints, parameters, objective, \* what findBestCellLabels hands the solver
    solution,                           \* what the solver returns
    correctedReconstruction, errors,    \* the two outputs of the node
    pc,                                 \* position inside updateOutputs
    run                                 \* number of the current evaluation

members ==
    <<cells, width, height, depth, groundTruthLabels, reconstructionLabels,
      possibleGroundTruthMatches, possibleReconstructionMatches,
      indicatorVarsByRecLabel, indicatorVarsByGtToRecLabel, matchVars>>

program == <<constraints, parameters, objective, solution>>

vars ==
    <<groundTruth, reconstruction, maxDistanceThreshold, members, program,
      correctedReconstruction, errors, pc, run>>

\* the member fields of the instance, as one record
This ==
    [cells |-> cells, width |-> width, height |-> height, depth |-> depth,
     groundTruthLabels |-> groundTruthLabels,
     reconstructionLabels |-> reconstructionLabels,
     possibleGroundTruthMatches |-> possibleGroundTruthMatches,
     possibleReconstructionMatches |-> possibleReconstructionMatches,
     indicatorVarsByRecLabel |-> indicatorVarsByRecLabel,
     indicatorVarsByGtToRecLabel |-> indicatorVarsByGtToRecLabel,
     matchVars |-> matchVars]

\* the member fields right after construction
Constructed ==
    [cells |-> EmptyMap, width |-> 0, height |-> 0, depth |-> 0,
     groundTruthLabels |-> {}, reconstructionLabels |-> {},
     possibleGroundTruthMatches |-> EmptyMap,
     possibleReconstructionMatches |-> EmptyMap,
     indicatorVarsByRecLabel |-> EmptyMap,
     indicatorVarsByGtToRecLabel |-> EmptyMap,
     matchVars |-> EmptyMap]

\* write the member fields back
Assign(m) ==
    /\ cells' = m.cells
    /\ width' = m.width
    /\ height' = m.height
    /\ depth' = m.depth
    /\ groundTruthLabels' = m.groundTruthLabels
    /\ reconstructionLabels' = m.reconstructionLabels
    /\ possibleGroundTruthMatches' = m.possibleGroundTruthMatches
    /\ possibleReconstructionMatches' = m.possibleReconstructionMatches
    /\ indicatorVarsByRecLabel' = m.indicatorVarsByRecLabel
    /\ indicatorVarsByGtToRecLabel' = m.indicatorVarsByGtToRecLabel
    /\ matchVars' = m.matchVars

\* ------------------------------------------------------ possible matches
clearPossibleMatches(m) ==
    [m EXCEPT !.possibleGroundTruthMatches = EmptyMap,
              !.groundTruthLabels = {},
              !.reconstructionLabels = {}]

registerPossibleMatch(m, gtLabel, recLabel) ==
    [m EXCEPT
        !.possibleGroundTruthMatches = MapSetInsert(@, gtLabel, recLabel),
        !.possibleReconstructionMatches = MapSetInsert(@, recLabel, gtLabel),
        !.groundTruthLabels = @ \cup {gtLabel},
        !.reconstructionLabels = @ \cup {recLabel}]

RECURSIVE registerAll(_, _)
\* registerPossibleMatch for every <<gtLabel, recLabel>> of a set of pairs
registerAll(m, pairs) ==
    IF pairs = {} THEN m
    ELSE LET p == CHOOSE q \in pairs : TRUE
         IN registerAll(registerPossibleMatch(m, p[1], p[2]), pairs \ {p})

\* a size test that leaves out the comparison of the heights
SizeMismatchIgnoringHeight(gt, rec) ==
    \/ gt.depth # rec.depth
    \/ gt.width # rec.width

\* ------------------------------------------------------------ extractCells
SizeMismatch(gt, rec) ==
    \/ gt.depth # rec.depth
    \/ gt.height # rec.height
    \/ gt.width # rec.width

\* the coordinates the loops of extractCells visit: x and y both run to width
VisitedLocations(gt) == Locations(gt.width, gt.width, gt.depth)

\* (*image)(x, y): a row beyond the image's height is read from beyond its buffer
ReadLabel(volume, l, outOfBounds) ==
    IF l[2] < volume.height THEN volume.data[l] ELSE outOfBounds

\* extractCells reads beyond the images when the height is below the width
ReadsOutOfBounds(gt) == gt.height < gt.width

\* the body of extractCells after the size checks
extractCells(m, gt, rec, oobGt, oobRec) ==
    LET visited  == VisitedLocations(gt)
        gtAt(l)  == ReadLabel(gt, l, oobGt)
        recAt(l) == ReadLabel(rec, l, oobRec)
        recKeys  == {recAt(l) : l \in visited}
        gtKeys(r) == {gtAt(l) : l \in {v \in visited : recAt(v) = r}}
        newCells ==
            [r \in recKeys |->
                [g \in gtKeys(r) |->
                    [locations |-> {l \in visited : recAt(l) = r /\ gtAt(l) = g},
                     reconstructionLabel |-> r,
                     groundTruthLabel |-> g,
                     alternativeLabels |-> {}]]]
        cleared ==
            [clearPossibleMatches(m) EXCEPT
                !.cells = newCells,
                !.depth = gt.depth, !.width = gt.width, !.height = gt.height]
    IN registerAll(cleared, {<<gtAt(l), recAt(l)>> : l \in visited})

\* ----------------------------------------------------- enumerateCellLabels
\* squared distance of two voxels, axis k weighted by pitch[k]
SquaredDistance(a, b) ==
      (pitch[1] * (a[1] - b[1])) * (pitch[1] * (a[1] - b[1]))
    + (pitch[2] * (a[2] - b[2])) * (pitch[2] * (a[2] - b[2]))
    + (pitch[3] * (a[3] - b[3])) * (pitch[3] * (a[3] - b[3]))

\* vigra::separableMultiDistSquared(distance, distance, true, pitch) at voxel l,
\* for the mask that is 1 on `sources` (non-empty) and 0 elsewhere
DistanceMap(sources, l) ==
    IF l \in sources THEN 0
    ELSE Min({SquaredDistance(l, s) : s \in sources})

\* the voxels of all cells under _cells[recLabel]
LocationsOfRecLabel(m, recLabel) ==
    UNION {m.cells[recLabel][g].locations : g \in DOMAIN m.cells[recLabel]}

\* float maxDistance = 0; raised to the largest distance-map value in the cell
MaxDistance(m, cell, recLabel) ==
    Max({0} \cup {DistanceMap(LocationsOfRecLabel(m, recLabel), l) :
                      l \in cell.locations})

\* the test that makes recLabel an alternative of a cell
WithinThreshold(maxDistance, threshold) == maxDistance < threshold

\* the labels enumerateCellLabels adds to a cell
AlternativesOf(m, cell, threshold) ==
    {recLabel \in DOMAIN m.cells :
        /\ cell.reconstructionLabel # recLabel
        /\ WithinThreshold(MaxDistance(m, cell, recLabel), threshold)}

\* some cell holds a coordinate outside width x height x depth: indexing the
\* distance array with it writes beyond the array
IndexesOutOfBounds(m) ==
    \E r \in DOMAIN m.cells : \E g \in DOMAIN m.cells[r] :
        ~(m.cells[r][g].locations \subseteq Locations(m.width, m.height, m.depth))

enumerateCellLabels(m, threshold) ==
    LET newCells ==
            [r \in DOMAIN m.cells |->
                [g \in DOMAIN m.cells[r] |->
                    [m.cells[r][g] EXCEPT
                        !.alternativeLabels =
                            @ \cup AlternativesOf(m, m.cells[r][g], threshold)]]]
        added ==
            UNION {UNION {{<<m.cells[r][g].groundTruthLabel, a>> :
                              a \in AlternativesOf(m, m.cells[r][g], threshold)} :
                          g \in DOMAIN m.cells[r]} :
                   r \in DOMAIN m.cells}
    IN registerAll([m EXCEPT !.cells = newCells], added)

\* ------------------------------------------------------ findBestCellLabels
\* LinearConstraint::setCoefficient: sets (overwrites) the coefficient of var
setCoefficient(constraint, var, value) ==
    [constraint EXCEPT
        !.coefs = [v \in DOMAIN constraint.coefs \cup {var} |->
                      IF v = var THEN value ELSE constraint.coefs[v]]]

RECURSIVE setCoefficients(_, _, _)
\* setCoefficient(v, value) for every v of a sequence of variables, in order
setCoefficients(constraint, varSeq, value) ==
    IF varSeq = <<>> THEN constraint
    ELSE setCoefficients(setCoefficient(constraint, Head(varSeq), value),
                         Tail(varSeq), value)

\* a LinearConstraint with no coefficient set yet
NewConstraint(relation, value) ==
    [coefs |-> EmptyMap, relation |-> relation, value |-> value]

\* the variables begin, begin + 1, ..., end - 1, as a sequence
VarRange(begin, end) == [i \in 1..(end - begin) |-> begin + i - 1]

\* the cells in the order of the indicator loop: by reconstruction label, then
\* by ground truth label
CellOrder(m) ==
    LET recSeq == SetToSortedSeq(m.reconstructionLabels)
        gtSeq(r) == SetToSortedSeq(DOMAIN MapGet(m.cells, r, EmptyMap))
    IN Flatten([i \in 1..Len(recSeq) |->
                  [j \in 1..Len(gtSeq(recSeq[i])) |->
                      <<recSeq[i], gtSeq(recSeq[i])[j]>>]])

\* the labels a cell gets an indicator for: its default label, then its
\* alternative labels
CellLabels(cell) ==
    <<cell.reconstructionLabel>> \o SetToSortedSeq(cell.alternativeLabels)

\* one entry per indicator variable of the given cells, in the order var++
\* hands the variables out; the first entry is variable 0
IndicatorList(m, order) ==
    Flatten([i \in 1..Len(order) |->
        LET cell == m.cells[order[i][1]][order[i][2]]
        IN [k \in 1..Len(CellLabels(cell)) |->
               [cell |-> order[i],
                gtLabel |-> cell.groundTruthLabel,
                recLabel |-> CellLabels(cell)[k]]]])

\* `begin` and `end` of the i-th cell of the indicator loop
CellBegin(m, i) == Len(IndicatorList(m, SubSeq(CellOrder(m), 1, i - 1)))
CellEnd(m, i) == Len(IndicatorList(m, SubSeq(CellOrder(m), 1, i)))

assignIndicatorVariable(m, var, gtLabel, recLabel) ==
    LET byRec == m.indicatorVarsByRecLabel
        byGt  == m.indicatorVarsByGtToRecLabel
        row   == MapGet(byGt, gtLabel, EmptyMap)
    IN [m EXCEPT
          !.indicatorVarsByRecLabel =
              [r \in DOMAIN byRec \cup {recLabel} |->
                  IF r = recLabel THEN Append(MapGet(byRec, r, <<>>), var)
                  ELSE byRec[r]],
          !.indicatorVarsByGtToRecLabel =
              [g \in DOMAIN byGt \cup {gtLabel} |->
                  IF g = gtLabel
                  THEN [r \in DOMAIN row \cup {recLabel} |->
                           IF r = recLabel THEN Append(MapGet(row, r, <<>>), var)
                           ELSE row[r]]
                  ELSE byGt[g]]]

RECURSIVE assignIndicators(_, _, _)
\* assignIndicatorVariable(var++, ...) for every entry of an indicator list
assignIndicators(m, indicators, var) ==
    IF indicators = <<>> THEN m
    ELSE assignIndicators(
             assignIndicatorVariable(m, var, Head(indicators).gtLabel,
                                     Head(indicators).recLabel),
             Tail(indicators), var + 1)

getIndicatorsByRec(m, recLabel) == MapGet(m.indicatorVarsByRecLabel, recLabel, <<>>)

getIndicatorsGtToRec(m, gtLabel, recLabel) ==
    MapGet(MapGet(m.indicatorVarsByGtToRecLabel, gtLabel, EmptyMap), recLabel, <<>>)

getPossibleMatchesByGt(m, gtLabel) == MapGet(m.possibleGroundTruthMatches, gtLabel, {})

getPossibleMathesByRec(m, recLabel) ==
    MapGet(m.possibleReconstructionMatches, recLabel, {})

\* the <<gtLabel, recLabel>> pairs in the order the match variables are handed out
MatchList(m) ==
    LET gtSeq == SetToSortedSeq(m.groundTruthLabels)
        recSeq(g) == SetToSortedSeq(getPossibleMatchesByGt(m, g))
    IN Flatten([i \in 1..Len(gtSeq) |->
                  [j \in 1..Len(recSeq(gtSeq[i])) |-> <<gtSeq[i], recSeq(gtSeq[i])[j]>>]])

assignMatchVariable(m, var, gtLabel, recLabel) ==
    LET row == MapGet(m.matchVars, gtLabel, EmptyMap)
    IN [m EXCEPT
          !.matchVars =
              [g \in DOMAIN m.matchVars \cup {gtLabel} |->
                  IF g = gtLabel
                  THEN [r \in DOMAIN row \cup {recLabel} |->
                           IF r = recLabel THEN var ELSE row[r]]
                  ELSE m.matchVars[g]]]

RECURSIVE assignMatches(_, _, _)
\* assignMatchVariable(var++, ...) for every pair of a match list
assignMatches(m, matches, var) ==
    IF matches = <<>> THEN m
    ELSE assignMatches(assignMatchVariable(m, var, Head(matches)[1], Head(matches)[2]),
                       Tail(matches), var + 1)

\* _matchVars[gtLabel][recLabel]; every pair looked up has been assigned in this
\* or in an earlier evaluation, so operator[] never inserts
getMatchVariable(m, gtLabel, recLabel) ==
    MapGet(MapGet(m.matchVars, gtLabel, EmptyMap), recLabel, 0)

\* "every cell needs to have a label": one constraint per cell
CellConstraints(m) ==
    [i \in 1..Len(CellOrder(m)) |->
        setCoefficients(NewConstraint("Equal", 1),
                        VarRange(CellBegin(m, i), CellEnd(m, i)), 1)]

\* "labels can not disappear": one constraint per reconstruction label
LabelConstraints(m) ==
    LET recSeq == SetToSortedSeq(m.reconstructionLabels)
    IN [i \in 1..Len(recSeq) |->
           setCoefficients(NewConstraint("GreaterEqual", 1),
                           getIndicatorsByRec(m, recSeq[i]), 1)]

\* "at least one assignment of gtLabel to recLabel -> match is one": one
\* constraint per indicator of the pair
MatchConstraints(m, gtLabel, recLabel) ==
    LET matchVar == getMatchVariable(m, gtLabel, recLabel)
        indicators == getIndicatorsGtToRec(m, gtLabel, recLabel)
    IN [k \in 1..Len(indicators) |->
           setCoefficient(
               setCoefficient(NewConstraint("GreaterEqual", 0), matchVar, 1),
               indicators[k], -1)]

\* NoMatchConstraint with the coefficient of the match variable left out
NoMatchConstraintWithoutMatchVar(m, gtLabel, recLabel) ==
    setCoefficients(NewConstraint("GreaterEqual", 0),
                    getIndicatorsGtToRec(m, gtLabel, recLabel), 1)

\* "no assignment of gtLabel to recLabel -> match is zero"
NoMatchConstraint(m, gtLabel, recLabel) ==
    setCoefficient(
        setCoefficients(NewConstraint("GreaterEqual", 0),
                        getIndicatorsGtToRec(m, gtLabel, recLabel), 1),
        getMatchVariable(m, gtLabel, recLabel), -1)

\* "cell label selection activates match"
MatchActivationConstraints(m) ==
    LET matches == MatchList(m)
    IN Flatten([i \in 1..Len(matches) |->
                  MatchConstraints(m, matches[i][1], matches[i][2])
                  \o <<NoMatchConstraint(m, matches[i][1], matches[i][2])>>])

\* the variables getMatchVariable(gtLabel, r) for r in a set, in set order
MatchVarsByGt(m, gtLabel, recLabels) ==
    LET recSeq == SetToSortedSeq(recLabels)
    IN [j \in 1..Len(recSeq) |-> getMatchVariable(m, gtLabel, recSeq[j])]

\* the variables getMatchVariable(g, recLabel) for g in a set, in set order
MatchVarsByRec(m, gtLabels, recLabel) ==
    LET gtSeq == SetToSortedSeq(gtLabels)
    IN [j \in 1..Len(gtSeq) |-> getMatchVariable(m, gtSeq[j], recLabel)]

\* `positive` of a split or merge counter
PositiveConstraint(var) == setCoefficient(NewConstraint("GreaterEqual", 0), var, 1)

\* `numSplits`: splitVar minus the match variables of gtLabel equals -1
NumSplitsConstraint(m, splitVar, gtLabel) ==
    setCoefficients(
        setCoefficient(NewConstraint("Equal", -1), splitVar, 1),
        MatchVarsByGt(m, gtLabel, getPossibleMatchesByGt(m, gtLabel)), -1)

\* NumMergesConstraint with the right-hand side 0 instead of -1
NumMergesConstraintWithoutOffset(m, mergeVar, recLabel) ==
    setCoefficients(
        setCoefficient(NewConstraint("Equal", 0), mergeVar, 1),
        MatchVarsByRec(m, getPossibleMathesByRec(m, recLabel), recLabel), -1)

\* `numMerges`: mergeVar minus the match variables of recLabel equals -1
NumMergesConstraint(m, mergeVar, recLabel) ==
    setCoefficients(
        setCoefficient(NewConstraint("Equal", -1), mergeVar, 1),
        MatchVarsByRec(m, getPossibleMathesByRec(m, recLabel), recLabel), -1)

\* "introduce split number for each ground truth label"
SplitConstraints(m, splitBegin) ==
    LET gtSeq == SetToSortedSeq(m.groundTruthLabels)
    IN Flatten([i \in 1..Len(gtSeq) |->
                  <<PositiveConstraint(splitBegin + i - 1),
                    NumSplitsConstraint(m, splitBegin + i - 1, gtSeq[i])>>])

\* "introduce merge number for each reconstruction label"
MergeConstraints(m, mergeBegin) ==
    LET recSeq == SetToSortedSeq(m.reconstructionLabels)
    IN Flatten([i \in 1..Len(recSeq) |->
                  <<PositiveConstraint(mergeBegin + i - 1),
                    NumMergesConstraint(m, mergeBegin + i - 1, recSeq[i])>>])

\* `sumOfSplits` and `sumOfMerges`: the total minus the counters equals 0
SumConstraint(total, begin, end) ==
    setCoefficients(setCoefficient(NewConstraint("Equal", 0), total, 1),
                    VarRange(begin, end), -1)

\* findBestCellLabels up to the solver call: the member fields it leaves and the
\* constraints, parameters and objective it hands to the solver
findBestCellLabels(m) ==
    LET indicators == IndicatorList(m, CellOrder(m))
        m1         == assignIndicators(m, indicators, 0)
        matchBegin == Len(indicators)
        m2         == assignMatches(m1, MatchList(m1), matchBegin)
        splitBegin == matchBegin + Len(MatchList(m1))
        splitEnd   == splitBegin + Cardinality(m2.groundTruthLabels)
        splits     == splitEnd
        mergeBegin == splits + 1
        mergeEnd   == mergeBegin + Cardinality(m2.reconstructionLabels)
        merges     == mergeEnd
    IN [members |-> m2,
        constraints |->
            CellConstraints(m2) \o LabelConstraints(m2)
            \o MatchActivationConstraints(m2)
            \o SplitConstraints(m2, splitBegin)
            \o <<SumConstraint(splits, splitBegin, splitEnd)>>
            \o MergeConstraints(m2, mergeBegin)
            \o <<SumConstraint(merges, mergeBegin, mergeEnd)>>,
        parameters |-> [integer |-> splitBegin..merges],
        objective |-> [size |-> merges + 1, splits |-> splits, merges |-> merges,
                       coefs |-> [v \in {splits, merges} |-> 1],
                       sense |-> "Minimize"]]

\* ------------------------------------------------------------ LinearSolver
\* the values a variable may take: Binary by default, Integer when set
VariableDomain(params, var) ==
    IF var \in params.integer THEN (0 - IntBound)..IntBound ELSE {0, 1}

\* the left-hand side of a constraint under an assignment; variable v is a[v + 1]
LeftHandSide(constraint, a) ==
    SumOver([v \in DOMAIN constraint.coefs |-> constraint.coefs[v] * a[v + 1]],
            DOMAIN constraint.coefs)

Satisfies(constraint, a) ==
    IF constraint.relation = "Equal"
    THEN LeftHandSide(constraint, a) = constraint.value
    ELSE LeftHandSide(constraint, a) >= constraint.value

\* the largest variable a constraint mentions
LastVar(constraint) == Max({0 - 1} \cup DOMAIN constraint.coefs)

RECURSIVE ExtendAssignments(_, _, _, _)
\* all assignments of the variables 0..(n - 1) that extend one of `partial`
\* (assignments of 0..(k - 1)) and satisfy every constraint; a constraint is
\* tested as soon as all its variables have a value
ExtendAssignments(prog, k, partial, n) ==
    IF k = n THEN partial
    ELSE LET due == {i \in 1..Len(prog.constraints) :
                        LastVar(prog.constraints[i]) = k}
             next == {Append(a, x) : a \in partial, x \in VariableDomain(prog.parameters, k)}
         IN ExtendAssignments(prog, k + 1,
                {a \in next : \A i \in due : Satisfies(prog.constraints[i], a)}, n)

\* a constraint mentions a variable the objective does not have
MentionsUnknownVariable(prog) ==
    \E i \in 1..Len(prog.constraints) :
        LastVar(prog.constraints[i]) >= prog.objective.size

\* every assignment that satisfies the constraints and the variable types
FeasibleSolutions(prog) ==
    IF MentionsUnknownVariable(prog) THEN {}
    ELSE ExtendAssignments(prog, 0, {<<>>}, prog.objective.size)

ObjectiveValue(prog, a) ==
    SumOver([v \in DOMAIN prog.objective.coefs |-> prog.objective.coefs[v] * a[v + 1]],
            DOMAIN prog.objective.coefs)

\* the feasible assignments of least objective value
OptimalSolutions(prog) ==
    LET feasible == FeasibleSolutions(prog)
    IN {a \in feasible :
           \A b \in feasible : ObjectiveValue(prog, a) <= ObjectiveValue(prog, b)}

\* ----------------------------------------------------------------- actions
\* an output no evaluation has written
Unset == "unset"

\* no linear program has been built in the current evaluation
NoProgram ==
    [constraints |-> <<>>,
     parameters |-> [integer |-> {}],
     objective |-> [size |-> 0, splits |-> 0, merges |-> 0, coefs |-> EmptyMap,
                    sense |-> "Minimize"]]

\* the linear program of the current evaluation
Program ==
    [constraints |-> constraints, parameters |-> parameters, objective |-> objective]

Init ==
    /\ groundTruth \in Volumes
    /\ reconstruction \in Volumes
    /\ maxDistanceThreshold \in Thresholds
    /\ cells = Constructed.cells
    /\ width = Constructed.width
    /\ height = Constructed.height
    /\ depth = Constructed.depth
    /\ groundTruthLabels = Constructed.groundTruthLabels
    /\ reconstructionLabels = Constructed.reconstructionLabels
    /\ possibleGroundTruthMatches = Constructed.possibleGroundTruthMatches
    /\ possibleReconstructionMatches = Constructed.possibleReconstructionMatches
    /\ indicatorVarsByRecLabel = Constructed.indicatorVarsByRecLabel
    /\ indicatorVarsByGtToRecLabel = Constructed.indicatorVarsByGtToRecLabel
    /\ matchVars = Constructed.matchVars
    /\ constraints = NoProgram.constraints
    /\ parameters = NoProgram.parameters
    /\ objective = NoProgram.objective
    /\ solution = <<>>
    /\ correctedReconstruction = Unset
    /\ errors = Unset
    /\ pc = "ready"
    /\ run = 1

\* extractCells: throws SizeMismatchError before touching anything, else clears
\* and refills the cells; with height < width its reads leave the images
ExtractCells ==
    /\ pc = "ready"
    /\ IF SizeMismatch(groundTruth, reconstruction)
       THEN /\ pc' = "error"
            /\ UNCHANGED members
       ELSE \/ /\ \E oobGt \in OutOfBoundsValues, oobRec \in OutOfBoundsValues :
                    Assign(extractCells(This, groundTruth, reconstruction,
                                        oobGt, oobRec))
               /\ pc' = "extracted"
            \/ /\ ReadsOutOfBounds(groundTruth)
               /\ pc' = "crashed"
               /\ UNCHANGED members
    /\ UNCHANGED <<groundTruth, reconstruction, maxDistanceThreshold, program,
                   correctedReconstruction, errors, run>>

\* enumerateCellLabels; a cell coordinate outside the volume indexes the
\* distance array beyond its end, after which nothing is defined
EnumerateCellLabels ==
    /\ pc = "extracted"
    /\ IF IndexesOutOfBounds(This)
       THEN /\ pc' = "undefined"
            /\ UNCHANGED members
       ELSE /\ Assign(enumerateCellLabels(This, maxDistanceThreshold))
            /\ pc' = "enumerated"
    /\ UNCHANGED <<groundTruth, reconstruction, maxDistanceThreshold, program,
                   correctedReconstruction, errors, run>>

\* findBestCellLabels: builds the linear program, has it solved and logs the
\* number of splits and merges of the solution
FindBestCellLabels ==
    /\ pc = "enumerated"
    /\ LET built == findBestCellLabels(This)
           optimal == OptimalSolutions(built)
       IN /\ Assign(built.members)
          /\ constraints' = built.constraints
          /\ parameters' = built.parameters
          /\ objective' = built.objective
          /\ IF optimal = {}
             THEN /\ solution' = <<>>
                  /\ pc' = "failed"
             ELSE /\ solution' \in optimal
                  /\ pc' = "done"
    /\ UNCHANGED <<groundTruth, reconstruction, maxDistanceThreshold,
                   correctedReconstruction, errors, run>>

\* the pipeline sets new inputs on the same instance and asks for the outputs
\* again: the next call of updateOutputs
SetInputs ==
    /\ pc \in {"done", "error", "failed"}
    /\ run < MaxRuns
    /\ groundTruth' \in Volumes
    /\ reconstruction' \in Volumes
    /\ run' = run + 1
    /\ pc' = "ready"
    /\ constraints' = NoProgram.constraints
    /\ parameters' = NoProgram.parameters
    /\ objective' = NoProgram.objective
    /\ solution' = <<>>
    /\ UNCHANGED <<maxDistanceThreshold, members, correctedReconstruction, errors>>

\* one evaluation of a freshly constructed instance
UpdateOutputsStep == ExtractCells \/ EnumerateCellLabels \/ FindBestCellLabels

NextFresh == UpdateOutputsStep

Next == UpdateOutputsStep \/ SetInputs

\* a freshly constructed instance evaluates one pair of volumes
SpecFresh == Init /\ [][NextFresh]_vars

\* one instance evaluates up to MaxRuns pairs of volumes, one after the other
Spec == Init /\ [][Next]_vars

\* ------------------------------------------------- reading a linear program
\* updateOutputs on volumes of equal shape with height >= width: the member
\* fields and the linear program it leaves
updateOutputs(m, gt, rec, threshold) ==
    findBestCellLabels(
        enumerateCellLabels(extractCells(m, gt, rec, 0, 0), threshold))

\* the value of variable var in an assignment
ValueOf(a, var) == a[var + 1]

\* the <<recLabel, gtLabel>> keys of all cells
CellKeys(m) ==
    UNION {{<<r, g>> : g \in DOMAIN m.cells[r]} : r \in DOMAIN m.cells}

\* the indicator variable the indicator loop hands out for a cell and a label
IndicatorVarOf(m, key, label) ==
    LET list == IndicatorList(m, CellOrder(m))
    IN (CHOOSE i \in 1..Len(list) :
            list[i].cell = key /\ list[i].recLabel = label) - 1

\* the labels a cell has an indicator for
LabelsOfCell(m, key) ==
    {m.cells[key[1]][key[2]].reconstructionLabel}
        \cup m.cells[key[1]][key[2]].alternativeLabels

\* the labels a cell is assigned by an assignment: those whose indicator is 1
AssignedLabels(m, a, key) ==
    {l \in LabelsOfCell(m, key) : ValueOf(a, IndicatorVarOf(m, key, l)) = 1}

\* the possible matches <<gtLabel, recLabel>> of the current evaluation
PossibleMatches(m) ==
    UNION {{<<g, r>> : r \in m.possibleGroundTruthMatches[g]} :
              g \in DOMAIN m.possibleGroundTruthMatches}

\* the possible matches whose match variable is 1
ActiveMatches(m, a) ==
    {p \in PossibleMatches(m) : ValueOf(a, m.matchVars[p[1]][p[2]]) = 1}

\* the labels that occur in a volume
LabelsIn(volume) ==
    {volume.data[l] : l \in Locations(volume.width, volume.height, volume.depth)}

\* the linear program has been emitted
Emitted == pc \in {"done", "failed"}

\* --------------------------------------------------------------------- C1
\* C1: after extractCells on volumes of equal shape, every voxel of the volume
\* is a location of exactly one cell, the cell keyed by the voxel's
\* (reconstruction, ground truth) labels, and no cell holds a coordinate
\* outside the volume; for every width and height.
C1_CellsPartitionVolume ==
    pc = "extracted" =>
        /\ \A l \in Locations(groundTruth.width, groundTruth.height,
                              groundTruth.depth) :
              \A key \in (0..MaxLabel) \X (0..MaxLabel) :
                  (key \in CellKeys(This) /\ l \in cells[key[1]][key[2]].locations)
                      <=> key = <<reconstruction.data[l], groundTruth.data[l]>>
        /\ \A key \in CellKeys(This) :
              cells[key[1]][key[2]].locations
                  \subseteq Locations(groundTruth.width, groundTruth.height,
                                      groundTruth.depth)

\* --------------------------------------------------------------------- C2
\* C2: after enumerateCellLabels with threshold T, a reconstruction label r
\* other than a cell's own is an alternative of the cell exactly when the
\* largest squared distance of the cell's voxels to the nearest voxel labeled r
\* is below T * T; a cell's own label is never an alternative.
C2_AlternativesWithinSquaredThreshold ==
    pc = "enumerated" =>
        \A key \in CellKeys(This) :
            LET cell == cells[key[1]][key[2]]
            IN /\ cell.reconstructionLabel \notin cell.alternativeLabels
               /\ \A r \in reconstructionLabels \ {cell.reconstructionLabel} :
                     r \in cell.alternativeLabels
                         <=> MaxDistance(This, cell, r)
                                 < maxDistanceThreshold * maxDistanceThreshold

\* --------------------------------------------------------------------- C3
\* C3: whatever was evaluated before, the cells, both possible-match maps, the
\* indicator lists, the match-variable map and the constraints of an
\* evaluation equal those of a freshly constructed instance on the same input.
C3_EvaluationsIndependent ==
    Emitted =>
        LET fresh == updateOutputs(Constructed, groundTruth, reconstruction,
                                   maxDistanceThreshold)
        IN /\ cells = fresh.members.cells
           /\ possibleGroundTruthMatches = fresh.members.possibleGroundTruthMatches
           /\ possibleReconstructionMatches
                  = fresh.members.possibleReconstructionMatches
           /\ indicatorVarsByRecLabel = fresh.members.indicatorVarsByRecLabel
           /\ indicatorVarsByGtToRecLabel
                  = fresh.members.indicatorVarsByGtToRecLabel
           /\ matchVars = fresh.members.matchVars
           /\ constraints = fresh.constraints

\* --------------------------------------------------------------------- C4
\* C4: when updateOutputs completes, the errors output holds the solution's
\* values of S and M and the corrected reconstruction is a volume of the input
\* shape whose voxels carry the label chosen for their cell; when it fails,
\* neither output is produced.
C4_OutputsProduced ==
    /\ pc = "done" =>
          /\ errors # Unset
          /\ errors = [splits |-> ValueOf(solution, objective.splits),
                       merges |-> ValueOf(solution, objective.merges)]
          /\ correctedReconstruction # Unset
          /\ correctedReconstruction.width = groundTruth.width
          /\ correctedReconstruction.height = groundTruth.height
          /\ correctedReconstruction.depth = groundTruth.depth
          /\ \A key \in CellKeys(This) :
                \A l \in cells[key[1]][key[2]].locations :
                    AssignedLabels(This, solution, key)
                        = {correctedReconstruction.data[l]}
    /\ pc \in {"error", "failed", "crashed", "undefined"} =>
          errors = Unset /\ correctedReconstruction = Unset

\* --------------------------------------------------------------------- C5
\* C5: on the first evaluation of an instance, in every assignment that
\* satisfies the emitted constraints, the match variable of a possible match
\* (g, r) is 1 exactly when some cell with ground truth label g has its
\* indicator for label r at 1.
C5_MatchIsOrOfIndicators ==
    (Emitted /\ run = 1) =>
        \A a \in FeasibleSolutions(Program) :
            \A p \in PossibleMatches(This) :
                ValueOf(a, matchVars[p[1]][p[2]]) = 1
                    <=> \E key \in CellKeys(This) :
                            /\ cells[key[1]][key[2]].groundTruthLabel = p[1]
                            /\ p[2] \in AssignedLabels(This, a, key)

\* a first evaluation whose program has assignments with a match at 1 and
\* assignments with the same match at 0
C5_Witness ==
    /\ Emitted /\ run = 1
    /\ \E p \in PossibleMatches(This) :
          /\ \E a \in FeasibleSolutions(Program) :
                ValueOf(a, matchVars[p[1]][p[2]]) = 1
          /\ \E a \in FeasibleSolutions(Program) :
                ValueOf(a, matchVars[p[1]][p[2]]) = 0

\* --------------------------------------------------------------------- C6
\* C6: in every assignment that satisfies the emitted constraints, each cell
\* has exactly one indicator at 1 and every reconstruction label of the input
\* is assigned to at least one cell.
C6_LabelsDoNotDisappear ==
    Emitted =>
        \A a \in FeasibleSolutions(Program) :
            /\ \A key \in CellKeys(This) :
                  Cardinality(AssignedLabels(This, a, key)) = 1
            /\ \A r \in LabelsIn(reconstruction) :
                  \E key \in CellKeys(This) : r \in AssignedLabels(This, a, key)

\* --------------------------------------------------------------------- C7
\* the number of active matches of a ground truth label beyond the first
ExtraMatchesOfGt(m, a, g) ==
    Max({0, Cardinality({p \in ActiveMatches(m, a) : p[1] = g}) - 1})

\* the number of active matches of a reconstruction label beyond the first
ExtraMatchesOfRec(m, a, r) ==
    Max({0, Cardinality({p \in ActiveMatches(m, a) : p[2] = r}) - 1})

\* C7: in every assignment that satisfies the emitted constraints, S is the sum
\* over the ground truth labels of the active matches beyond the first, M the
\* same sum over the reconstruction labels, and no per-label counter is
\* negative.
C7_TotalsCountExtraMatches ==
    Emitted =>
        \A a \in FeasibleSolutions(Program) :
            /\ ValueOf(a, objective.splits)
                  = SumOver([g \in groundTruthLabels |-> ExtraMatchesOfGt(This, a, g)],
                            groundTruthLabels)
            /\ ValueOf(a, objective.merges)
                  = SumOver([r \in reconstructionLabels |->
                                ExtraMatchesOfRec(This, a, r)],
                            reconstructionLabels)
            /\ \A v \in parameters.integer : ValueOf(a, v) >= 0

\* --------------------------------------------------------------------- C8
\* C8: when ground truth and reconstruction are voxel-wise equal, the optimum
\* has S = 0 and M = 0 and every cell keeps its default label, for every
\* threshold.
C8_Identity ==
    (pc = "done" /\ groundTruth = reconstruction) =>
        /\ ValueOf(solution, objective.splits) = 0
        /\ ValueOf(solution, objective.merges) = 0
        /\ \A key \in CellKeys(This) :
              AssignedLabels(This, solution, key)
                  = {cells[key[1]][key[2]].reconstructionLabel}

\* --------------------------------------------------------------------- C9
\* the alternative labels of every cell of a member state
AlternativeLabelsOf(m) ==
    [key \in CellKeys(m) |-> m.cells[key[1]][key[2]].alternativeLabels]

\* the least objective value of a linear program that has a solution
OptimalValue(prog) ==
    Min({ObjectiveValue(prog, a) : a \in FeasibleSolutions(prog)})

\* C9: for the evaluated pair of volumes and a threshold T1 below the
\* instance's, every cell has under T1 a subset of the alternatives it has now,
\* and the optimum S + M now is at most the optimum under T1.
C9_MonotoneInTolerance ==
    pc = "done" =>
        \A t1 \in {t \in Thresholds : t <= maxDistanceThreshold} :
            LET lower == updateOutputs(Constructed, groundTruth, reconstruction, t1)
            IN /\ \A key \in CellKeys(This) :
                     AlternativeLabelsOf(lower.members)[key]
                         \subseteq AlternativeLabelsOf(This)[key]
               /\ ObjectiveValue(Program, solution) <= OptimalValue(lower)

\* -------------------------------------------------------------------- C10
\* the anisotropic scenario: ground truth 1 except voxel (0, 0, 1) labeled 2,
\* reconstruction 1 everywhere, threshold 5 (the pitch is (1, 1, 10))
AnisotropicScenario ==
    /\ groundTruth.depth >= 2
    /\ \A l \in DOMAIN groundTruth.data :
          groundTruth.data[l] = IF l = <<0, 0, 1>> THEN 2 ELSE 1
    /\ ~SizeMismatch(groundTruth, reconstruction)
    /\ \A l \in DOMAIN reconstruction.data : reconstruction.data[l] = 1
    /\ maxDistanceThreshold = 5

\* C10 as stated: in the anisotropic scenario the optimum reports S = 1, M = 0.
C10_AnisotropicSplit ==
    (pc = "done" /\ AnisotropicScenario) =>
        /\ ValueOf(solution, objective.splits) = 1
        /\ ValueOf(solution, objective.merges) = 0

\* C10 amended: in the anisotropic scenario, evaluated first by an instance, the
\* optimum reports S = 0 and M = 1 (both ground truth labels lie under the one
\* reconstruction label, which is a merge); no other assignment satisfies the
\* constraints.
C10_AnisotropicMerge ==
    (pc = "done" /\ run = 1 /\ AnisotropicScenario) =>
        /\ ValueOf(solution, objective.splits) = 0
        /\ ValueOf(solution, objective.merges) = 1
        /\ \A a \in FeasibleSolutions(Program) :
              ValueOf(a, objective.splits) = 0 /\ ValueOf(a, objective.merges) = 1

\* the anisotropic scenario has been evaluated
C10_Witness == pc = "done" /\ run = 1 /\ AnisotropicScenario

\* the two inputs differ in depth, width or height
ShapesDiffer ==
    \/ groundTruth.depth # reconstruction.depth
    \/ groundTruth.width # reconstruction.width
    \/ groundTruth.height # reconstruction.height

\* C11: a call of extractCells (the step taken from pc = "ready") fails with
\* SizeMismatch exactly when the ground truth and the reconstruction differ in
\* depth, width or height; a failing call leaves the cells, the label sets, the
\* possible-match maps and every other member as they were before the call, and
\* no linear program is built or solved: the program stays empty and the only
\* step after the failure is the arrival of new inputs.
C11_SizeMismatchFailsFast ==
    [][/\ pc = "ready" =>
            /\ (pc' = "error") <=> ShapesDiffer
            /\ pc' = "error" =>
                  /\ members' = members
                  /\ program' = program
                  /\ program = <<NoProgram.constraints, NoProgram.parameters,
                                 NoProgram.objective, <<>>>>
       /\ pc = "error" => (pc' = "ready" /\ run' = run + 1)]_vars

\* extractCells has failed on inputs of different shape in an instance whose
\* cells and possible-match maps were filled by an earlier evaluation
C11_Witness ==
    /\ pc = "error"
    /\ ShapesDiffer
    /\ run > 1
    /\ cells # Constructed.cells
    /\ possibleGroundTruthMatches # Constructed.possibleGroundTruthMatches

====
